---- MODULE Spec2Model ----
(***************************************************************************)
(* Model of the pvcast configuration page (src/pvcastfrontend/02-config.py) *)
(*                                                                         *)
(* The page keeps a registry of PV plants (State.pv_plants, a Python dict  *)
(* from plant name to a frozen PVPlant dataclass), a session counter       *)
(* (State.array_count), a YAML config file on disk, three snackbar flags,  *)
(* and at most one modal edit dialog with its private copy of the edited   *)
(* item.  A second, independent widget (Compass) computes the end point of *)
(* the azimuth pointer drawn on a map.                                     *)
(*                                                                         *)
(* Representation.  A Python dict is an insertion-ordered sequence of      *)
(* <<key, value>> pairs; a dataclass instance is a record.  The config     *)
(* file holds the YAML document tree (yaml.dump / yaml.safe_load are the   *)
(* library's text layer and are taken to preserve the tree); the           *)
(* conversions the page itself performs, dataclass -> dict on save and     *)
(* dict -> dataclass on load, are modelled as written.                     *)
(***************************************************************************)
EXTENDS Integers, Sequences, FiniteSets, TLC

VARIABLES
    pv_plants,      \* State.pv_plants.value: dict name -> PVPlant
    array_count,    \* State.array_count.value
    update_proxy,   \* update_proxy.value
    file,           \* the config file at CONFIG_FILE_PATH
    file_missing,   \* PlantConfiguration: use_state flags
    save_success,
    save_error,
    err_message,
    dialog,         \* the open edit dialog (vue.Dialog, persistent) and its copy
    steps,          \* number of handler calls so far in the session
    last,           \* name of the handler that ran last (and, for a load or a close,
                    \* whether it followed a save or dropped changes)
    location,       \* Compass marker location, <<lat, lon>> in micro-degrees
    azimuth_angle,  \* PlantConfigurationAzimuth: azimuth slider, degrees
    azimuth_line    \* end point of Compass.azimuth_line, micro-degrees

vars == <<pv_plants, array_count, update_proxy, file, file_missing, save_success,
          save_error, err_message, dialog, steps, last, location, azimuth_angle,
          azimuth_line>>

compassVars == <<location, azimuth_angle, azimuth_line>>

configVars == <<pv_plants, array_count, update_proxy, file, file_missing, save_success,
                save_error, err_message, dialog, steps, last>>

-----------------------------------------------------------------------------
(* Bounds of the model *)

\* handler calls (button presses, typed values, snackbar timeouts) in one session
MaxSteps == 6

-----------------------------------------------------------------------------
(* Python dicts as insertion-ordered sequences of <<key, value>> pairs *)

HasKey(d, k) == \E i \in 1..Len(d) : d[i][1] = k

DictGet(d, k) == d[CHOOSE i \in 1..Len(d) : d[i][1] = k][2]

DictKeys(d) == [i \in 1..Len(d) |-> d[i][1]]

\* d[k] = v : an existing key keeps its position, a new key goes last
DictSet(d, k, v) ==
    IF HasKey(d, k)
    THEN [i \in 1..Len(d) |-> IF d[i][1] = k THEN <<k, v>> ELSE d[i]]
    ELSE Append(d, <<k, v>>)

\* d.pop(k) for a key that is present
DictPop(d, k) == SelectSeq(d, LAMBDA e : e[1] # k)

\* d.update(e)
RECURSIVE DictUpdate(_, _)
DictUpdate(d, e) ==
    IF e = <<>> THEN d
    ELSE DictUpdate(DictSet(d, Head(e)[1], Head(e)[2]), Tail(e))

\* list.index(x): position of the first element equal to x, 0 when there is none
ListIndex(s, x) ==
    IF \E i \in 1..Len(s) : s[i] = x
    THEN CHOOSE i \in 1..Len(s) : s[i] = x /\ \A j \in 1..(i - 1) : s[j] # x
    ELSE 0

\* list.remove(x) for an x that is present: drops the first equal element
ListRemove(s, x) ==
    LET i == ListIndex(s, x)
    IN  SubSeq(s, 1, i - 1) \o SubSeq(s, i + 1, Len(s))

ListSet(s, i, x) == [j \in 1..Len(s) |-> IF j = i THEN x ELSE s[j]]

-----------------------------------------------------------------------------
(* The dataclasses *)

\* ArrayConfig(): the field defaults
ArrayConfig ==
    [name |-> "", tilt |-> 30, azimuth |-> 180, modules_per_string |-> 1,
     strings |-> 1, module |-> ""]

\* PVPlant(name=n): inverter, microinverter and arrays take their defaults
PVPlant(n) ==
    [name |-> n, inverter |-> "", microinverter |-> FALSE, arrays |-> <<>>]

-----------------------------------------------------------------------------
(* class State: the registry operations, as functions of the registry *)

\* on_new_plant without the search for an existing key: the entry is overwritten
on_new_plant_overwrite(plants, plant) == DictSet(plants, plant.name, plant)

\* State.on_new_plant: the registry after on_new_plant(plant)
on_new_plant(plants, plant) ==
    IF \E i \in 1..Len(plants) : DictKeys(plants)[i] = plant.name
    THEN plants
    ELSE DictSet(plants, plant.name, plant)

\* f"Array {State.array_count.value}"
GeneratedName(count) == "Array " \o ToString(count)

\* the name generated from the counter as it was before the increment
NamedArray_stale(array, count) ==
    IF array.name = "" THEN [array EXCEPT !.name = GeneratedName(count - 1)] ELSE array

\* State.on_new_array: the array as appended, given the counter after the increment
NamedArray(array, count) ==
    IF array.name = "" THEN [array EXCEPT !.name = GeneratedName(count)] ELSE array

\* State.on_new_array: the registry after on_new_array(plant, array); count is
\* State.array_count before the call
on_new_array(plants, count, plant, array) ==
    LET new_plant == [plant EXCEPT !.arrays = Append(plant.arrays, NamedArray(array, count + 1))]
    IN  DictSet(plants, new_plant.name, new_plant)

\* a delete by popitem(): the entry inserted last goes, whatever its key
on_delete_plant_popitem(plants, plant) ==
    IF HasKey(plants, plant.name) THEN SubSeq(plants, 1, Len(plants) - 1) ELSE plants

\* State.on_delete_plant: a missing key raises KeyError, which is caught
on_delete_plant(plants, plant) ==
    IF HasKey(plants, plant.name) THEN DictPop(plants, plant.name) ELSE plants

\* a delete that filters the list: every array equal to the argument goes
on_delete_array_all(plants, plant, array) ==
    IF ListIndex(plant.arrays, array) = 0
    THEN plants
    ELSE LET new_plant == [plant EXCEPT !.arrays = SelectSeq(plant.arrays, LAMBDA a : a # array)]
         IN  DictSet(plants, new_plant.name, new_plant)

\* State.on_delete_array: a missing array raises ValueError, which is caught
on_delete_array(plants, plant, array) ==
    IF ListIndex(plant.arrays, array) = 0
    THEN plants
    ELSE LET new_plant == [plant EXCEPT !.arrays = ListRemove(plant.arrays, array)]
         IN  DictSet(plants, new_plant.name, new_plant)

-----------------------------------------------------------------------------
(* Config Serializer: dataclasses.asdict on save, the constructors on load *)

\* dataclasses.asdict(array)
ArrayAsDict(a) ==
    << <<"name", a.name>>, <<"tilt", a.tilt>>, <<"azimuth", a.azimuth>>,
       <<"modules_per_string", a.modules_per_string>>, <<"strings", a.strings>>,
       <<"module", a.module>> >>

\* dataclasses.asdict(plant): recurses into the arrays list
PlantAsDict(p) ==
    << <<"name", p.name>>, <<"inverter", p.inverter>>,
       <<"microinverter", p.microinverter>>,
       <<"arrays", [i \in 1..Len(p.arrays) |-> ArrayAsDict(p.arrays[i])]>> >>

\* State.as_dict: {"plant": [asdict(plant) for plant in pv_plants.values()]}
as_dict(plants) ==
    << <<"plant", [i \in 1..Len(plants) |-> PlantAsDict(plants[i][2])]>> >>

\* the array built from the values in the wrong order: tilt and azimuth change places
ArrayFromDict_swapped(d) ==
    [name |-> DictGet(d, "name"), tilt |-> DictGet(d, "azimuth"),
     azimuth |-> DictGet(d, "tilt"), modules_per_string |-> DictGet(d, "modules_per_string"),
     strings |-> DictGet(d, "strings"), module |-> DictGet(d, "module")]

\* ArrayConfig(**array): a keyword that is absent leaves the field default
ArrayFromDict(d) ==
    [name |-> IF HasKey(d, "name") THEN DictGet(d, "name") ELSE ArrayConfig.name,
     tilt |-> IF HasKey(d, "tilt") THEN DictGet(d, "tilt") ELSE ArrayConfig.tilt,
     azimuth |-> IF HasKey(d, "azimuth") THEN DictGet(d, "azimuth") ELSE ArrayConfig.azimuth,
     modules_per_string |-> IF HasKey(d, "modules_per_string")
                            THEN DictGet(d, "modules_per_string")
                            ELSE ArrayConfig.modules_per_string,
     strings |-> IF HasKey(d, "strings") THEN DictGet(d, "strings") ELSE ArrayConfig.strings,
     module |-> IF HasKey(d, "module") THEN DictGet(d, "module") ELSE ArrayConfig.module]

\* on_load: PVPlant(name=plant["name"], inverter=..., microinverter=..., arrays=[...])
PlantFromDict(d) ==
    [name |-> DictGet(d, "name"),
     inverter |-> DictGet(d, "inverter"),
     microinverter |-> DictGet(d, "microinverter"),
     arrays |-> LET l == DictGet(d, "arrays")
                IN  [i \in 1..Len(l) |-> ArrayFromDict(l[i])]]

\* on_load: the dict comprehension {plant["name"]: PVPlant(...) for plant in config["plant"]}
LoadedPlants(config) ==
    LET l == DictGet(config, "plant")
    IN  DictUpdate(<<>>, [i \in 1..Len(l) |-> <<DictGet(l[i], "name"), PlantFromDict(l[i])>>])

-----------------------------------------------------------------------------
(* Schema Validator: State.config_schema applied to State.as_dict()          *)
(* The str / int / bool type checks of the schema hold of every value the   *)
(* page can put in a field; the ranges and the required keys are checked.   *)

ArrayKeys == {"name", "tilt", "azimuth", "modules_per_string", "strings", "module"}

PlantKeys == {"name", "inverter", "microinverter", "arrays"}

KeySet(d) == {d[i][1] : i \in 1..Len(d)}

\* the schema with Range(min=0) for modules_per_string
SchemaArray_lax(d) ==
    /\ KeySet(d) = ArrayKeys
    /\ DictGet(d, "tilt") >= 0 /\ DictGet(d, "tilt") <= 90
    /\ DictGet(d, "azimuth") >= 0 /\ DictGet(d, "azimuth") <= 360
    /\ DictGet(d, "modules_per_string") >= 0
    /\ DictGet(d, "strings") >= 1

SchemaArray(d) ==
    /\ KeySet(d) = ArrayKeys
    /\ DictGet(d, "tilt") >= 0 /\ DictGet(d, "tilt") <= 90
    /\ DictGet(d, "azimuth") >= 0 /\ DictGet(d, "azimuth") <= 360
    /\ DictGet(d, "modules_per_string") >= 1
    /\ DictGet(d, "strings") >= 1

SchemaPlant(d) ==
    /\ KeySet(d) = PlantKeys
    /\ \A i \in 1..Len(DictGet(d, "arrays")) : SchemaArray(DictGet(d, "arrays")[i])

\* TRUE when the schema accepts config, FALSE when it raises Invalid
config_schema(config) ==
    /\ HasKey(config, "plant")
    /\ \A i \in 1..Len(DictGet(config, "plant")) : SchemaPlant(DictGet(config, "plant")[i])
    /\ Len(DictGet(config, "plant")) >= 1

-----------------------------------------------------------------------------
(* The config file *)

FileAbsent == [state |-> "absent", doc |-> <<>>]

\* a file of zero bytes: yaml.safe_load gives None
FileEmpty == [state |-> "empty", doc |-> <<>>]

\* a file holding a YAML mapping
FileOf(doc) == [state |-> "dict", doc |-> doc]

\* a section of the pvcast config that is not the page's concern
GeneralSection == << <<"general", << <<"timezone", "UTC">> >> >> >>

\* a plant section as an earlier session of the page writes it
StoredPlants ==
    as_dict(<< <<"A", [PVPlant("A") EXCEPT !.arrays =
                          << [ArrayConfig EXCEPT !.name = GeneratedName(1)] >>]>> >>)

\* the files a session may find at CONFIG_FILE_PATH
InitialFiles ==
    {FileAbsent, FileEmpty, FileOf(GeneralSection),
     FileOf(GeneralSection \o StoredPlants)}

\* on_save, outcome of the call: "empty" (no plants), "invalid" (schema),
\* "crash" (the file exists but holds no mapping: None.update raises), "saved"
SaveOutcome(plants, f) ==
    IF Len(DictGet(as_dict(plants), "plant")) = 0 THEN "empty"
    ELSE IF ~config_schema(as_dict(plants)) THEN "invalid"
    ELSE IF f.state = "empty" THEN "crash"
    ELSE "saved"

\* an on_save that writes the plant section alone, without reading the file first
SavedFile_overwrite(plants, f) ==
    CASE SaveOutcome(plants, f) = "saved" -> FileOf(as_dict(plants))
      [] SaveOutcome(plants, f) = "crash" -> FileEmpty
      [] OTHER -> f

\* on_save: the file after the call
SavedFile(plants, f) ==
    CASE SaveOutcome(plants, f) = "saved" ->
            FileOf(DictUpdate(IF f.state = "dict" THEN f.doc ELSE <<>>, as_dict(plants)))
      [] SaveOutcome(plants, f) = "crash" -> FileEmpty
      [] OTHER -> f

\* on_load: TRUE when the file exists and holds a mapping with a "plant" key
Loadable(f) == f.state = "dict" /\ HasKey(f.doc, "plant")

\* on_load without set_file_missing(False) at its start
FileMissingAfterLoad_sticky(f, before) == before \/ f.state = "absent"

\* on_load: file_missing after the call; before is its value at the call
FileMissingAfterLoad(f, before) == f.state = "absent"

-----------------------------------------------------------------------------
(* Inputs *)

\* plant names typed into PVPlantNew and into the name field of PVPlantEdit
PlantNames == {"A", "B"}

\* array names typed into the name field of ArrayEdit
ArrayNames == {GeneratedName(2)}

\* arrays handed to State.on_new_array: ArrayNew passes ArrayConfig()
NewArrays == {ArrayConfig, [ArrayConfig EXCEPT !.name = "East"]}

\* component names picked in PVComponentSelect
Components == {"cec_1"}

\* numbers typed into an InputIntRow
TypedValues == {400}

\* the InputIntRow fields of ArrayEdit
IntFields == {"tilt", "azimuth", "modules_per_string", "strings"}

\* InputIntRow(lower_bound=...): 0 unless given
lower_bound(f) == IF f \in {"modules_per_string", "strings"} THEN 1 ELSE 0

\* InputIntRow(upper_bound=...): math.inf unless given
HasUpperBound(f) == f \in {"tilt", "azimuth"}

upper_bound(f) == IF f = "tilt" THEN 90 ELSE 360

\* InputIntRow.filter_value: min(max(int(v), lower_bound), upper_bound)
filter_value(f, v) ==
    LET val == IF v > lower_bound(f) THEN v ELSE lower_bound(f)
    IN  IF HasUpperBound(f) /\ val > upper_bound(f) THEN upper_bound(f) ELSE val

-----------------------------------------------------------------------------
(* Edit dialogs *)

NoDialog ==
    [kind |-> "none", key |-> "", index |-> 0, plant |-> PVPlant(""), array |-> ArrayConfig]

\* pv_plant.value of the open dialog: Ref(State.pv_plants.fields[plant_name])
DialogPlant == DictGet(pv_plants, dialog.key)

\* array.value of the open dialog: Ref(pv_plant.fields.arrays[index])
DialogArray == DialogPlant.arrays[dialog.index]

\* one more handler call on the configuration tab, by the handler named op;
\* the compass tab is not touched
Ran(op) ==
    /\ steps < MaxSteps
    /\ steps' = steps + 1
    /\ last' = op
    /\ UNCHANGED compassVars

-----------------------------------------------------------------------------
(* Compass: the azimuth pointer on the map.  Angles are whole degrees,      *)
(* latitudes and longitudes are micro-degrees, distances are millimetres,  *)
(* sines and cosines are thousandths.                                      *)

\* Compass.__init__(radius=20)
radius == 20

\* xi, radius of the earth in meters
xi == 6378137

\* math.pi, in thousandths
PiMilli == 3142

\* PlantConfigurationAzimuth: LATITUDE and LONGITUDE defaults, azimuth_angle default
DefaultLatitude == 51

DefaultLongitude == 3

DefaultAzimuth == 90

Micro(deg) == deg * 1000000

\* a / b rounded towards zero
TruncDiv(a, b) ==
    LET abs(x) == IF x < 0 THEN -x ELSE x
    IN  IF (a < 0) = (b < 0) THEN abs(a) \div abs(b) ELSE -(abs(a) \div abs(b))

\* 1000 * sin of d degrees, d in 0..90 a multiple of 15
SinTable(d) ==
    CASE d = 0 -> 0 [] d = 15 -> 259 [] d = 30 -> 500 [] d = 45 -> 707
      [] d = 60 -> 866 [] d = 75 -> 966 [] d = 90 -> 1000

\* 1000 * math.sin(math.radians(d)) for any multiple of 15, negative ones included
SinMilli(d) ==
    LET r == d % 360
    IN  IF r <= 90 THEN SinTable(r)
        ELSE IF r <= 180 THEN SinTable(180 - r)
        ELSE IF r <= 270 THEN -SinTable(r - 180)
        ELSE -SinTable(360 - r)

\* 1000 * math.cos(math.radians(d))
CosMilli(d) == SinMilli(d + 90)

\* 1000 * math.cos(lat): the code hands the latitude, a number of degrees, to
\* math.cos, which reads it as radians; lat is in micro-degrees
CosOfLat(lat) ==
    CASE lat = Micro(50) -> 965
      [] lat = Micro(51) -> 742
      [] lat = Micro(52) -> -163

\* Compass.calc_new_latlon
calc_new_latlon(lat, lon, angle_deg) ==
    LET angle == -1 * angle_deg
        dist_y == TruncDiv(15 * radius * CosMilli(angle), 10)
        dist_x == TruncDiv(15 * radius * SinMilli(angle) * 105, 1000)
        pi_xi == (PiMilli * (xi \div 1000)) \div 1000
        new_lat == lat + TruncDiv(dist_y * 180, pi_xi)
        new_lon == lon + TruncDiv(TruncDiv(dist_x * 180, pi_xi) * 1000, CosOfLat(lat))
    IN  <<new_lat, new_lon>>

\* positions of the azimuth slider (min_val=0, max_val=360)
Azimuths == {a \in 0..360 : a % 15 = 0}

\* places the draggable marker is dropped at
Locations == {<<Micro(la), Micro(lo)>> : la \in {50, 51, 52}, lo \in {3, 4}}

\* SliderRow on_value -> update_line_angle
UpdateLineAngle(a) ==
    /\ azimuth_angle' = a
    /\ azimuth_line' = calc_new_latlon(location[1], location[2], a)
    /\ UNCHANGED <<location, configVars>>

\* the marker is dragged: Compass._update_location
UpdateLocation(loc) ==
    /\ location' = loc
    /\ azimuth_line' = calc_new_latlon(loc[1], loc[2], azimuth_angle)
    /\ UNCHANGED <<azimuth_angle, configVars>>

-----------------------------------------------------------------------------
(* Initial state *)

\* PlantConfigurationAzimuth builds the map and Compass(lf_map, azimuth=azimuth_angle);
\* Compass.__init__ draws the pointer with calc_new_latlon(*center, 90)
InitCompass ==
    /\ location = <<Micro(DefaultLatitude), Micro(DefaultLongitude)>>
    /\ azimuth_angle = DefaultAzimuth
    /\ azimuth_line = calc_new_latlon(Micro(DefaultLatitude), Micro(DefaultLongitude), 90)

Init ==
    /\ pv_plants = <<>>
    /\ array_count = 0
    /\ update_proxy = 0
    /\ file \in InitialFiles
    /\ file_missing = FALSE
    /\ save_success = FALSE
    /\ save_error = FALSE
    /\ err_message = ""
    /\ dialog = NoDialog
    /\ steps = 0
    /\ last = "init"
    /\ InitCompass

-----------------------------------------------------------------------------
(* Handlers of the configuration page *)

\* PVPlantNew.create_new_item -> State.on_new_plant(PVPlant(name=new_name))
OnNewPlant(n) ==
    /\ dialog.kind = "none"
    /\ n # ""
    /\ Ran("on_new_plant")
    /\ pv_plants' = on_new_plant(pv_plants, PVPlant(n))
    /\ UNCHANGED <<array_count, update_proxy, file, file_missing, save_success,
                   save_error, err_message, dialog>>

\* an on_new_array that counts only the arrays it has to name
OnNewArray_blankonly(k, a) ==
    /\ dialog.kind = "none"
    /\ HasKey(pv_plants, k)
    /\ Ran("on_new_array")
    /\ array_count' = IF a.name = "" THEN array_count + 1 ELSE array_count
    /\ pv_plants' = on_new_array(pv_plants, array_count, DictGet(pv_plants, k), a)
    /\ UNCHANGED <<update_proxy, file, file_missing, save_success, save_error,
                   err_message, dialog>>

\* ArrayNew button -> State.on_new_array(plant.value, array)
OnNewArray(k, a) ==
    /\ dialog.kind = "none"
    /\ HasKey(pv_plants, k)
    /\ Ran("on_new_array")
    /\ array_count' = array_count + 1
    /\ pv_plants' = on_new_array(pv_plants, array_count, DictGet(pv_plants, k), a)
    /\ UNCHANGED <<update_proxy, file, file_missing, save_success, save_error,
                   err_message, dialog>>

\* DELETE PLANT button -> State.on_delete_plant(pv_plant.value)
OnDeletePlant(k) ==
    /\ dialog.kind = "none"
    /\ HasKey(pv_plants, k)
    /\ Ran("on_delete_plant")
    /\ pv_plants' = on_delete_plant(pv_plants, DictGet(pv_plants, k))
    /\ UNCHANGED <<array_count, update_proxy, file, file_missing, save_success,
                   save_error, err_message, dialog>>

\* DELETE ARRAY button -> State.on_delete_array(pv_plant.value, array.value)
OnDeleteArray(k, i) ==
    /\ dialog.kind = "none"
    /\ HasKey(pv_plants, k)
    /\ i \in 1..Len(DictGet(pv_plants, k).arrays)
    /\ Ran("on_delete_array")
    /\ pv_plants' = on_delete_array(pv_plants, DictGet(pv_plants, k),
                                    DictGet(pv_plants, k).arrays[i])
    /\ UNCHANGED <<array_count, update_proxy, file, file_missing, save_success,
                   save_error, err_message, dialog>>

\* PlantConfiguration.on_save
OnSave ==
    /\ dialog.kind = "none"
    /\ Ran("on_save")
    /\ file' = SavedFile(pv_plants, file)
    /\ save_error' = IF SaveOutcome(pv_plants, file) \in {"empty", "invalid"}
                     THEN TRUE ELSE save_error
    /\ err_message' = CASE SaveOutcome(pv_plants, file) = "empty" ->
                             "No plants configured yet."
                        [] SaveOutcome(pv_plants, file) = "invalid" ->
                             "The configuration is invalid"
                        [] OTHER -> err_message
    /\ save_success' = IF SaveOutcome(pv_plants, file) = "saved" THEN TRUE ELSE save_success
    /\ UNCHANGED <<pv_plants, array_count, update_proxy, file_missing, dialog>>

\* PlantConfiguration.on_load: a file without a mapping or without "plant" raises
\* after set_file_missing(False)
OnLoad ==
    /\ dialog.kind = "none"
    /\ Ran(IF last = "on_save" THEN "on_load_after_save" ELSE "on_load")
    /\ file_missing' = FileMissingAfterLoad(file, file_missing)
    /\ pv_plants' = IF Loadable(file) THEN LoadedPlants(file.doc) ELSE pv_plants
    /\ UNCHANGED <<array_count, update_proxy, file, save_success, save_error,
                   err_message, dialog>>

\* the snackbars' on_v_model: a snackbar that times out resets its flag
SnackbarTimeout ==
    /\ Ran("snackbar")
    /\ \/ file_missing /\ file_missing' = FALSE /\ UNCHANGED <<save_success, save_error>>
       \/ save_success /\ save_success' = FALSE /\ UNCHANGED <<file_missing, save_error>>
       \/ save_error /\ save_error' = FALSE /\ UNCHANGED <<file_missing, save_success>>
    /\ UNCHANGED <<pv_plants, array_count, update_proxy, file, err_message, dialog>>

-----------------------------------------------------------------------------
(* PVPlantEdit: the dialog edits copy = use_reactive(pv_plant.value) *)

\* EDIT PLANT button: set_edit(True) renders PVPlantEdit with a fresh copy
OpenPlantEdit(k) ==
    /\ dialog.kind = "none"
    /\ HasKey(pv_plants, k)
    /\ Ran("open_plant_edit")
    /\ dialog' = [NoDialog EXCEPT !.kind = "plant", !.key = k, !.plant = DictGet(pv_plants, k)]
    /\ UNCHANGED <<pv_plants, array_count, update_proxy, file, file_missing,
                   save_success, save_error, err_message>>

\* a field of the plant copy is set: Ref(copy.fields.name), PVComponentSelect(copy,
\* inv_param, "inverter"), Ref(copy.fields.microinverter)
PlantEditChange(f, v) ==
    /\ dialog.kind = "plant"
    /\ dialog.plant[f] # v
    /\ Ran("plant_edit_change")
    /\ dialog' = [dialog EXCEPT !.plant[f] = v]
    /\ UNCHANGED <<pv_plants, array_count, update_proxy, file, file_missing,
                   save_success, save_error, err_message>>

\* a save that stores the copy under the key the plant had
PlantEditSaved_samekey(plants, original, copy) == DictSet(plants, original.name, copy)

\* PVPlantEdit.save, the registry afterwards:
\* State.on_delete_plant(pv_plant.value); State.on_new_plant(copy.value)
PlantEditSaved(plants, original, copy) ==
    on_new_plant(on_delete_plant(plants, original), copy)

\* PVPlantEdit: Save button
PlantEditSave ==
    /\ dialog.kind = "plant"
    /\ Ran("plant_edit_save")
    /\ pv_plants' = PlantEditSaved(pv_plants, DialogPlant, dialog.plant)
    /\ dialog' = NoDialog
    /\ UNCHANGED <<array_count, update_proxy, file, file_missing, save_success,
                   save_error, err_message>>

\* PVPlantEdit: Close button, on_close = set_edit(False)
PlantEditClose ==
    /\ dialog.kind = "plant"
    /\ Ran(IF dialog.plant # DialogPlant THEN "plant_edit_close_unsaved" ELSE "plant_edit_close")
    /\ dialog' = NoDialog
    /\ UNCHANGED <<pv_plants, array_count, update_proxy, file, file_missing,
                   save_success, save_error, err_message>>

\* PVPlantEdit: Delete button, on_delete_in_edit
PlantEditDelete ==
    /\ dialog.kind = "plant"
    /\ Ran("plant_edit_delete")
    /\ pv_plants' = on_delete_plant(pv_plants, DialogPlant)
    /\ dialog' = NoDialog
    /\ UNCHANGED <<array_count, update_proxy, file, file_missing, save_success,
                   save_error, err_message>>

-----------------------------------------------------------------------------
(* ArrayEdit: the dialog edits copy = use_reactive(array.value) *)

\* EDIT ARRAY button
OpenArrayEdit(k, i) ==
    /\ dialog.kind = "none"
    /\ HasKey(pv_plants, k)
    /\ i \in 1..Len(DictGet(pv_plants, k).arrays)
    /\ Ran("open_array_edit")
    /\ dialog' = [NoDialog EXCEPT !.kind = "array", !.key = k, !.index = i,
                                  !.array = DictGet(pv_plants, k).arrays[i]]
    /\ UNCHANGED <<pv_plants, array_count, update_proxy, file, file_missing,
                   save_success, save_error, err_message>>

\* a save that appends the copy and leaves the original where it is
ArrayEditSaved_append(plants, plant, array, copy) ==
    DictSet(plants, plant.name, [plant EXCEPT !.arrays = Append(plant.arrays, copy)])

\* ArrayEdit.save, the registry afterwards: the arrays list of the plant is
\* changed in place, arrays[arrays.index(array.value)] = copy.value
ArrayEditSaved(plants, plant, array, copy) ==
    DictSet(plants, plant.name,
            [plant EXCEPT !.arrays = ListSet(plant.arrays, ListIndex(plant.arrays, array), copy)])

\* a dialog bound to the array itself: the change goes to the registry at once
ArrayEditChange_inplace(f, v) ==
    /\ dialog.kind = "array"
    /\ dialog.array[f] # v
    /\ Ran("array_edit_change")
    /\ dialog' = [dialog EXCEPT !.array[f] = v]
    /\ pv_plants' = ArrayEditSaved(pv_plants, DialogPlant, DialogArray,
                                   [dialog.array EXCEPT ![f] = v])
    /\ UNCHANGED <<array_count, update_proxy, file, file_missing,
                   save_success, save_error, err_message>>

\* a field of the array copy is set to v
ArrayEditChange(f, v) ==
    /\ dialog.kind = "array"
    /\ dialog.array[f] # v
    /\ Ran("array_edit_change")
    /\ dialog' = [dialog EXCEPT !.array[f] = v]
    /\ UNCHANGED <<pv_plants, array_count, update_proxy, file, file_missing,
                   save_success, save_error, err_message>>

\* InputText(value=Ref(copy.fields.name)) and PVComponentSelect(copy, mod_param, "module")
ArrayEditText ==
    \/ \E n \in ArrayNames : ArrayEditChange("name", n)
    \/ \E c \in Components : ArrayEditChange("module", c)

\* InputIntRow: a number typed into the field goes through filter_value
ArrayEditTyped ==
    \E f \in IntFields, v \in TypedValues : ArrayEditChange(f, filter_value(f, v))

\* InputIntRow: the plus 1 and minus 1 buttons, value.set(value.value +- 1)
ArrayEditButton ==
    \E f \in IntFields :
        \/ ArrayEditChange(f, dialog.array[f] + 1)
        \/ ArrayEditChange(f, dialog.array[f] - 1)

\* ArrayEdit: Save button
ArrayEditSave ==
    /\ dialog.kind = "array"
    /\ Ran("array_edit_save")
    /\ pv_plants' = ArrayEditSaved(pv_plants, DialogPlant, DialogArray, dialog.array)
    /\ update_proxy' = update_proxy + 1
    /\ dialog' = NoDialog
    /\ UNCHANGED <<array_count, file, file_missing, save_success, save_error,
                   err_message>>

\* ArrayEdit: Close button
ArrayEditClose ==
    /\ dialog.kind = "array"
    /\ Ran(IF dialog.array # DialogArray THEN "array_edit_close_unsaved" ELSE "array_edit_close")
    /\ dialog' = NoDialog
    /\ UNCHANGED <<pv_plants, array_count, update_proxy, file, file_missing,
                   save_success, save_error, err_message>>

\* ArrayEdit: Delete button, on_delete_in_edit
ArrayEditDelete ==
    /\ dialog.kind = "array"
    /\ Ran("array_edit_delete")
    /\ pv_plants' = on_delete_array(pv_plants, DialogPlant, DialogArray)
    /\ dialog' = NoDialog
    /\ UNCHANGED <<array_count, update_proxy, file, file_missing, save_success,
                   save_error, err_message>>

-----------------------------------------------------------------------------
(* The configuration page *)

PlantEditText ==
    \/ \E n \in PlantNames : PlantEditChange("name", n)
    \/ \E c \in Components : PlantEditChange("inverter", c)
    \/ \E b \in BOOLEAN : PlantEditChange("microinverter", b)

Next ==
    \/ \E n \in PlantNames : OnNewPlant(n)
    \/ \E k \in PlantNames, a \in NewArrays : OnNewArray(k, a)
    \/ \E k \in PlantNames : OnDeletePlant(k)
    \/ \E k \in PlantNames, i \in 1..MaxSteps : OnDeleteArray(k, i)
    \/ OnSave
    \/ OnLoad
    \/ SnackbarTimeout
    \/ \E k \in PlantNames : OpenPlantEdit(k)
    \/ PlantEditText
    \/ PlantEditSave
    \/ PlantEditClose
    \/ PlantEditDelete
    \/ \E k \in PlantNames, i \in 1..MaxSteps : OpenArrayEdit(k, i)
    \/ ArrayEditText
    \/ ArrayEditTyped
    \/ ArrayEditButton
    \/ ArrayEditSave
    \/ ArrayEditClose
    \/ ArrayEditDelete

Spec == Init /\ [][Next]_vars

\* the compass tab alone: the slider and the marker
NextCompass ==
    \/ \E a \in Azimuths : UpdateLineAngle(a)
    \/ \E loc \in Locations : UpdateLocation(loc)

SpecCompass == Init /\ [][NextCompass]_vars

-----------------------------------------------------------------------------
(* Properties *)

Last(seq) == seq[Len(seq)]

\* the arrays of the plant stored under key k
ArraysOf(plants, k) == DictGet(plants, k).arrays

\* a registry as the Schema Validator is specified to accept it: at least one
\* plant, and every array with tilt 0..90, azimuth 0..360, modules and strings >= 1
RegistryValid(plants) ==
    /\ Len(plants) >= 1
    /\ \A i \in 1..Len(plants) : \A j \in 1..Len(plants[i][2].arrays) :
          LET a == plants[i][2].arrays[j]
          IN  /\ a.tilt \in 0..90
              /\ a.azimuth \in 0..360
              /\ a.modules_per_string >= 1
              /\ a.strings >= 1

\* C1: on_new_plant(p) with p.name already a key leaves the registry as it was;
\* otherwise the registry is the old one with p appended last under key p.name.
C1_NameUniqueOnInsert ==
    [][\A n \in PlantNames :
          OnNewPlant(n) =>
             IF \E i \in 1..Len(pv_plants) : pv_plants[i][1] = n
             THEN pv_plants' = pv_plants
             ELSE pv_plants' = Append(pv_plants, <<n, PVPlant(n)>>)]_vars

\* an insert under a name that is taken: the plant that owns the name kept its arrays
C1_Witness ==
    /\ last = "on_new_plant"
    /\ Len(pv_plants) = 1
    /\ Len(pv_plants[1][2].arrays) >= 1

\* C2: every key of the registry maps to a plant whose name is that key.
C2_KeyIsPlantName ==
    \A i \in 1..Len(pv_plants) : pv_plants[i][1] = pv_plants[i][2].name

\* a plant renamed in the edit dialog and saved beside another plant
C2_Witness ==
    /\ last = "plant_edit_save"
    /\ Len(pv_plants) = 2
    /\ pv_plants[2][2].inverter # ""

\* C3: on_new_array appends the array after the plant's arrays, which keep their
\* order; a blank name becomes "Array N", N the counter after the increment, and a
\* name that is not blank is kept.
C3_NewArrayAppended ==
    [][\A k \in PlantNames, a \in NewArrays :
          OnNewArray(k, a) =>
             /\ HasKey(pv_plants', k)
             /\ ArraysOf(pv_plants', k) =
                   Append(ArraysOf(pv_plants, k),
                          IF a.name = ""
                          THEN [a EXCEPT !.name = "Array " \o ToString(array_count')]
                          ELSE a)]_vars

\* a named array followed by a blank one in the same plant
C3_Witness ==
    /\ last = "on_new_array"
    /\ \E i \in 1..Len(pv_plants) :
          /\ Len(pv_plants[i][2].arrays) = 2
          /\ pv_plants[i][2].arrays[1].name = "East"
          /\ pv_plants[i][2].arrays[2].name = "Array 2"
    /\ array_count = 2

\* C4: a name generated by on_new_array for a blank-named array differs from the
\* name of every array already in the target plant.
C4_GeneratedNameIsNew ==
    [][\A k \in PlantNames :
          OnNewArray(k, ArrayConfig) =>
             \A i \in 1..Len(ArraysOf(pv_plants, k)) :
                ArraysOf(pv_plants, k)[i].name # Last(ArraysOf(pv_plants', k)).name]_vars

\* C5: when on_save has just written a valid registry, the on_load that follows
\* leaves the registry equal to it: names, order, fields and arrays.
C5_SaveLoadRoundTrip ==
    [][(/\ last = "on_save"
        /\ RegistryValid(pv_plants)
        /\ file.state = "dict"
        /\ OnLoad) => pv_plants' = pv_plants]_vars

\* a registry with an edited array, saved and loaded back
C5_Witness ==
    /\ last = "on_load_after_save"
    /\ RegistryValid(pv_plants)
    /\ file.state = "dict"
    /\ \E i \in 1..Len(pv_plants) : \E j \in 1..Len(pv_plants[i][2].arrays) :
          pv_plants[i][2].arrays[j].tilt # pv_plants[i][2].arrays[j].azimuth
          /\ pv_plants[i][2].arrays[j].tilt # ArrayConfig.tilt

\* C6: on_save of a registry that is empty or has an array out of range leaves the
\* file as it is, sets save_error with a message and does not set save_success.
C6_InvalidNotSaved ==
    [][(OnSave /\ ~RegistryValid(pv_plants)) =>
          /\ file' = file
          /\ save_error'
          /\ err_message' # ""
          /\ save_success' = save_success]_vars

\* a save refused for an array out of range
C6_Witness ==
    /\ last = "on_save"
    /\ Len(pv_plants) >= 1
    /\ ~RegistryValid(pv_plants)
    /\ save_error
    /\ ~save_success
    /\ err_message = "The configuration is invalid"

\* C7: on_load without a file sets file_missing and leaves the registry and the
\* counter; on_load with a file clears file_missing.
C7_MissingFileOnLoad ==
    [][OnLoad =>
          IF file.state = "absent"
          THEN file_missing' /\ pv_plants' = pv_plants /\ array_count' = array_count
          ELSE ~file_missing']_vars

\* a load that found no file, with plants in the registry
C7_Witness ==
    /\ last = "on_load"
    /\ file.state = "absent"
    /\ file_missing
    /\ Len(pv_plants) >= 1

\* C8: a change of a field in an edit dialog, and Close, leave the registry as it is.
C8_EditOnCopy ==
    [][(\/ PlantEditText
        \/ ArrayEditText
        \/ ArrayEditTyped
        \/ ArrayEditButton
        \/ PlantEditClose
        \/ ArrayEditClose) => pv_plants' = pv_plants]_vars

\* an array dialog closed with changes that were not saved
C8_Witness ==
    /\ last = "array_edit_close_unsaved"
    /\ dialog.kind = "none"
    /\ Len(pv_plants) >= 1

\* C9: PVPlantEdit.save with a non-empty name leaves the registry mapping the
\* copy's name to the copy, without the entry of the old name when the name
\* changed, and with as many plants as before.
C9_PlantEditSaveKeepsPlant ==
    [][(PlantEditSave /\ dialog.plant.name # "") =>
          /\ HasKey(pv_plants', dialog.plant.name)
          /\ DictGet(pv_plants', dialog.plant.name) = dialog.plant
          /\ (dialog.plant.name # dialog.key => ~HasKey(pv_plants', dialog.key))
          /\ Len(pv_plants') = Len(pv_plants)]_vars

\* C10: at the default latitude the pointer for azimuth 0 ends due north of the
\* center, for an azimuth between 0 and 180 east of it, between 180 and 360 west.
C10_PointerClockwise ==
    location[1] = Micro(DefaultLatitude) =>
       /\ azimuth_angle = 0 =>
             azimuth_line[2] = location[2] /\ azimuth_line[1] > location[1]
       /\ (azimuth_angle > 0 /\ azimuth_angle < 180) => azimuth_line[2] > location[2]
       /\ (azimuth_angle > 180 /\ azimuth_angle < 360) => azimuth_line[2] < location[2]

\* C11: a successful on_save on a file that holds a mapping keeps every top-level
\* key other than "plant" with its value, sets "plant" to the serialisation of the
\* registry, and neither drops nor adds any other key.
C11_SaveMergesFile ==
    [][(OnSave /\ file.state = "dict" /\ RegistryValid(pv_plants)) =>
          /\ file'.state = "dict"
          /\ KeySet(file'.doc) = KeySet(file.doc) \cup {"plant"}
          /\ Len(file'.doc) = Cardinality(KeySet(file'.doc))
          /\ \A k \in KeySet(file.doc) \ {"plant"} :
                DictGet(file'.doc, k) = DictGet(file.doc, k)
          /\ DictGet(file'.doc, "plant") =
                [i \in 1..Len(pv_plants) |-> PlantAsDict(pv_plants[i][2])]]_vars

\* a save into a file that had a general section and an older plant section
C11_Witness ==
    /\ last = "on_save"
    /\ save_success
    /\ file.state = "dict"
    /\ HasKey(file.doc, "general")
    /\ HasKey(file.doc, "plant")
    /\ DictGet(file.doc, "plant") = DictGet(as_dict(pv_plants), "plant")
    /\ DictGet(file.doc, "plant") # DictGet(StoredPlants, "plant")

\* C12: on_save of a valid, non-empty registry sets save_success and leaves a file
\* with the "plant" section, whether the file was absent, held content or was empty.
C12_SaveForEveryFileState ==
    [][(OnSave /\ RegistryValid(pv_plants)) =>
          /\ save_success'
          /\ file'.state = "dict"
          /\ HasKey(file'.doc, "plant")
          /\ DictGet(file'.doc, "plant") =
                [i \in 1..Len(pv_plants) |-> PlantAsDict(pv_plants[i][2])]]_vars

\* C13: on_delete_plant(p) with p.name a key removes exactly that entry, the other
\* entries keep their plants and their order; with p.name not a key the KeyError is
\* caught and the registry stays as it is.
C13_DeletePlantRemovesOne ==
    [][/\ \A k \in PlantNames :
             (OnDeletePlant(k) \/ (PlantEditDelete /\ dialog.key = k)) =>
                \E i \in 1..Len(pv_plants) :
                   /\ pv_plants[i][1] = k
                   /\ pv_plants' = SubSeq(pv_plants, 1, i - 1)
                                       \o SubSeq(pv_plants, i + 1, Len(pv_plants))
       /\ \A n \in PlantNames \cup {"C"} :
             (\A i \in 1..Len(pv_plants) : pv_plants[i][1] # n) =>
                on_delete_plant(pv_plants, PVPlant(n)) = pv_plants]_vars

\* the first of two plants deleted: the other one is left with its arrays
C13_Witness ==
    /\ last \in {"on_delete_plant", "plant_edit_delete"}
    /\ Len(pv_plants) = 1
    /\ pv_plants[1][1] = "B"
    /\ Len(pv_plants[1][2].arrays) >= 1

\* C14: on_delete_array(plant, array) with an equal element in plant.arrays removes
\* the first equal element, the other arrays keep their order and the other plants
\* stay as they are; with no equal element the ValueError is caught and the
\* registry stays as it is.
C14_DeleteArrayRemovesFirst ==
    [][/\ \A k \in PlantNames, i \in 1..MaxSteps :
             (OnDeleteArray(k, i) \/ (ArrayEditDelete /\ dialog.key = k /\ dialog.index = i)) =>
                LET arrs == ArraysOf(pv_plants, k)
                    j == CHOOSE j \in 1..i :
                            arrs[j] = arrs[i] /\ \A m \in 1..(j - 1) : arrs[m] # arrs[i]
                IN  /\ Len(pv_plants') = Len(pv_plants)
                    /\ \A m \in 1..Len(pv_plants) :
                          pv_plants[m][1] # k => pv_plants'[m] = pv_plants[m]
                    /\ DictGet(pv_plants', k) =
                          [DictGet(pv_plants, k) EXCEPT
                              !.arrays = SubSeq(arrs, 1, j - 1) \o SubSeq(arrs, j + 1, Len(arrs))]
       /\ \A m \in 1..Len(pv_plants), a \in NewArrays :
             (\A i \in 1..Len(pv_plants[m][2].arrays) : pv_plants[m][2].arrays[i] # a) =>
                on_delete_array(pv_plants, pv_plants[m][2], a) = pv_plants]_vars

\* an array deleted from one of two plants, each of which still has an array
C14_Witness ==
    /\ last \in {"on_delete_array", "array_edit_delete"}
    /\ Len(pv_plants) = 2
    /\ Len(pv_plants[1][2].arrays) = 1
    /\ Len(pv_plants[2][2].arrays) = 1

\* C15: ArrayEdit.save keeps the length of the plant's arrays list, puts the edited
\* copy at the index of the first array equal to the original, leaves every other
\* array of the plant and every other plant as they are, adds one to update_proxy
\* and closes the dialog.
C15_ArrayEditSaveInPlace ==
    [][ArrayEditSave =>
          LET k == dialog.key
              arrs == ArraysOf(pv_plants, k)
              j == CHOOSE j \in 1..dialog.index :
                      /\ arrs[j] = arrs[dialog.index]
                      /\ \A m \in 1..(j - 1) : arrs[m] # arrs[dialog.index]
          IN  /\ Len(pv_plants') = Len(pv_plants)
              /\ \A m \in 1..Len(pv_plants) :
                    pv_plants[m][1] # k => pv_plants'[m] = pv_plants[m]
              /\ HasKey(pv_plants', k)
              /\ Len(ArraysOf(pv_plants', k)) = Len(arrs)
              /\ ArraysOf(pv_plants', k)[j] = dialog.array
              /\ \A m \in 1..Len(arrs) : m # j => ArraysOf(pv_plants', k)[m] = arrs[m]
              /\ [DictGet(pv_plants', k) EXCEPT !.arrays = arrs] = DictGet(pv_plants, k)
              /\ update_proxy' = update_proxy + 1
              /\ dialog'.kind = "none"]_vars

\* the second of two arrays saved with a new tilt, the first one as it was
C15_Witness ==
    /\ last = "array_edit_save"
    /\ update_proxy = 1
    /\ dialog.kind = "none"
    /\ \E i \in 1..Len(pv_plants) :
          /\ Len(pv_plants[i][2].arrays) = 2
          /\ pv_plants[i][2].arrays[1].tilt = ArrayConfig.tilt
          /\ pv_plants[i][2].arrays[2].tilt # ArrayConfig.tilt

\* C16: on_load with the file present leaves in the registry exactly the plants
\* listed under "plant" in the file, keyed by name, in file order, with their arrays
\* in file order; nothing of the previous registry remains.
C16_LoadReplacesRegistry ==
    [][(OnLoad /\ file.state # "absent") =>
          LET listed == IF file.state = "dict" /\ HasKey(file.doc, "plant")
                        THEN DictGet(file.doc, "plant")
                        ELSE <<>>
          IN  /\ Len(pv_plants') = Len(listed)
              /\ \A i \in 1..Len(listed) :
                    /\ pv_plants'[i][1] = DictGet(listed[i], "name")
                    /\ PlantAsDict(pv_plants'[i][2]) = listed[i]]_vars

\* C18: array_count grows by exactly one at every on_new_array, blank name or not,
\* and no other handler changes it; a generated name carries the counter value
\* after the increment, so no two names generated in one session are equal.
C18_ArrayCountMonotonic ==
    [][/\ \A k \in PlantNames, a \in NewArrays :
             OnNewArray(k, a) =>
                /\ array_count' = array_count + 1
                /\ a.name = "" =>
                      Last(ArraysOf(pv_plants', k)).name = "Array " \o ToString(array_count + 1)
       /\ (\A k \in PlantNames, a \in NewArrays : ~OnNewArray(k, a)) =>
             array_count' = array_count]_vars

\* a second blank-named array added after the first one was deleted
C18_Witness ==
    /\ last = "on_new_array"
    /\ array_count = 2
    /\ Len(pv_plants) = 1
    /\ Len(pv_plants[1][2].arrays) = 1
    /\ pv_plants[1][2].arrays[1].name = "Array 2"

====
